---- MODULE Spec2Model ----
(***************************************************************************)
(* Stark print server (src/server.py): upload handlers put jobs on a FIFO  *)
(* queue, worker threads run copy -> convert -> print per job and append   *)
(* lifecycle events to a capped in-memory history list.                    *)
(*                                                                         *)
(* Granularity: one action per operation on shared state (queue, history   *)
(* list, upload folder).  record_history is three separate interpreter     *)
(* steps (append, len test, del) with no lock around them, so other        *)
(* threads may run between them.                                           *)
(***************************************************************************)
EXTENDS Integers, Sequences, FiniteSets, TLC

\* ---------------------------------------------------------------- bounds
MaxUploads == 1        \* upload requests arriving in a run of Spec
MaxBatch == 2          \* upload requests arriving in a run of SpecFifo
MaxReads == 1          \* GET /history requests issued during one run
PoolSize == 2          \* worker count of the multi-worker configuration
HistoryPrefill == 198  \* events of earlier jobs in the ledger when a run starts

\* ------------------------------------------------------ program constants
WORKER_COUNT == 1
HISTORY_CAP == 200
HISTORY_VIEW == 100
ALLOWED_EXTENSIONS == {"pdf", "docx", "pptx", "xlsx"}

\* Filenames are <<base, extension>>; the inputs a client may send.
UploadNames == {<<"a", "pdf">>, <<"a", "docx">>, <<"a", "txt">>}

Reqs == 1..(IF MaxBatch > MaxUploads THEN MaxBatch ELSE MaxUploads)
Workers == 1..PoolSize
Threads == ({"upload"} \X Reqs) \cup ({"worker"} \X Workers)
Stamps == Reqs
Paths == Stamps \X UploadNames

\* The shutdown sentinel put by shutdown_workers (Python None), also the value
\* of a worker's job variable while it holds no job.
None == [id |-> 0, filename |-> <<"", "">>, filepath |-> <<0, <<"", "">>>>, req |-> 0]
NoDir == {"<none>"}    \* no scratch directory exists

VARIABLES
    job_queue,     \* queue.Queue(): sequence of job records and sentinels
    job_history,   \* the ledger list (see list_seq)
    uploads,       \* UPLOAD_FOLDER: path -> request whose bytes it holds, 0 = absent
    clock,         \* last value of int(time.time() * 1000) handed out
    nextReq,       \* next upload request to arrive
    up_pc,         \* position of each upload handler
    up_job,        \* the job dict built by each upload handler
    resp,          \* HTTP status returned by each upload handler
    rh,            \* position of each thread inside record_history
    wk_pc,         \* position of each worker thread
    job,           \* the job a worker holds
    tmpdir,        \* the worker's scratch directory: NoDir or its set of files
    worker_count,  \* number of worker threads started
    upload_count,  \* number of upload requests that arrive during the run
    adverse,       \* the run's environment may misbehave (disk, programs, clock)
    sentinels,     \* stop signals put so far by shutdown_workers
    serving,       \* app.run is accepting requests
    exited,        \* the main thread returned: the process (daemon threads) is gone
    reads,         \* GET /history requests served
    lastRead,      \* the list returned by the last GET /history
    \* history variables (observation only, never read by the program)
    nextSeq,       \* sequence number of the next append
    readAtSeq,     \* sequence number of the newest append at the last read
    readBusy,      \* some thread was inside record_history at the last read
    appendLog,     \* every event appended during the run, in append order
    putOrder,      \* requests in the order their job was put
    startOrder,    \* requests in the order a worker dequeued their job
    acct           \* per request: converter calls, spooler calls, removals, ...

vars == <<job_queue, job_history, uploads, clock, nextReq, up_pc, up_job, resp, rh,
          wk_pc, job, tmpdir, worker_count, upload_count, adverse, sentinels, serving, exited,
          reads, lastRead, nextSeq, readAtSeq, readBusy, appendLog, putOrder, startOrder, acct>>

\* ------------------------------------------------------- pure functions

\* allowed_file: the name has an extension and it is in ALLOWED_EXTENSIONS.
allowed_file(filename) == filename[2] \in ALLOWED_EXTENSIONS

\* What the external process does when run under a timeout.
ProcExit0 == [kind |-> "exit", code |-> 0, out |-> "ack", err |-> ""]
ProcExit1 == [kind |-> "exit", code |-> 1, out |-> "", err |-> "stderr"]
ProcTimeout == [kind |-> "timeout", code |-> 0, out |-> "", err |-> ""]
ProcOSError == [kind |-> "oserror", code |-> 0, out |-> "", err |-> ""]
ProcResults == {ProcExit0, ProcExit1, ProcTimeout, ProcOSError}

\* run_subprocess: (returncode, stdout, stderr); -1 with a "Timeout expired"
\* text when subprocess.run raises TimeoutExpired, -1 with the exception's text
\* when it raises anything else (the program cannot be started).
run_subprocess(res) ==
    CASE res.kind = "exit" -> [code |-> res.code, out |-> res.out, err |-> res.err]
      [] res.kind = "timeout" -> [code |-> -1, out |-> "", err |-> "Timeout expired"]
      [] OTHER -> [code |-> -1, out |-> "", err |-> "OSError"]

\* Python's `err or out`.
ErrOrOut(r) == IF r.err # "" THEN r.err ELSE r.out

\* What the converter does: the process result and whether <base>.pdf appears.
ConverterRuns == {<<ProcExit0, TRUE>>, <<ProcExit0, FALSE>>, <<ProcExit1, FALSE>>,
                  <<ProcTimeout, FALSE>>, <<ProcOSError, FALSE>>}

NoRun == <<[kind |-> "none", code |-> 0, out |-> "", err |-> ""], FALSE>>

\* The environment of a run.  An adverse one may do anything the code can meet;
\* a benign one writes and copies every file, its converter and spooler
\* succeed, and its clock has moved on by the next request.
SaveOutcomes == IF adverse THEN BOOLEAN ELSE {TRUE}
ConverterOutcomes == IF adverse THEN ConverterRuns ELSE {<<ProcExit0, TRUE>>}
SpoolerOutcomes == IF adverse THEN ProcResults ELSE {ProcExit0}
\* int(time.time() * 1000): the millisecond of the previous request or a later one.
ClockOutcomes == IF adverse THEN {clock, clock + 1} \ {0} ELSE {clock + 1}

\* Mutant of convert_to_pdf: the existence check of the output is missing.
convert_to_pdf_unchecked(res, dir) ==
    LET r == run_subprocess(res) IN
    IF r.code # 0
    THEN [raised |-> TRUE, text |-> <<"LibreOffice failed", ErrOrOut(r)>>]
    ELSE [raised |-> FALSE, text |-> <<"", "">>]

\* convert_to_pdf on a scratch directory holding `dir` after the converter ran:
\* raises on a non-zero code, raises when the expected PDF is absent.
convert_to_pdf(res, dir) ==
    LET r == run_subprocess(res) IN
    IF r.code # 0
    THEN [raised |-> TRUE, text |-> <<"LibreOffice failed", ErrOrOut(r)>>]
    ELSE IF "pdf" \notin dir
         THEN [raised |-> TRUE, text |-> <<"Conversion did not produce PDF", "">>]
         ELSE [raised |-> FALSE, text |-> <<"", "">>]

\* Mutant of print_pdf: the return code is not examined.
print_pdf_unchecked(res) ==
    LET r == run_subprocess(res) IN [ok |-> TRUE, msg |-> <<"", r.out>>]

\* print_pdf: (success, message).
print_pdf(res) ==
    LET r == run_subprocess(res) IN
    IF r.code # 0
    THEN [ok |-> FALSE, msg |-> <<"", ErrOrOut(r)>>]
    ELSE [ok |-> TRUE, msg |-> <<"", r.out>>]

\* Mutant of NeedsConversion: every file is sent through the converter.
NeedsConversion_always(filename) == TRUE

\* The worker's branch on the extension: PDFs skip the conversion stage.
NeedsConversion(filename) == filename[2] # "pdf"

\* The ledger left behind by jobs completed before the run: queued, processing,
\* printed for each earlier PDF job, oldest first.
PrefillEvent(i) ==
    [seq |-> i, req |-> 0, job_id |-> ((i - 1) \div 3) - HistoryPrefill,
     filename |-> <<"a", "pdf">>,
     status |-> IF i % 3 = 1 THEN "queued" ELSE IF i % 3 = 2 THEN "processing" ELSE "printed",
     info |-> <<"", IF i % 3 = 0 THEN "ack" ELSE "">>]

\* A Python list of history entries is kept as [lo, hi, tail]: the entries
\* PrefillEvent(lo), ..., PrefillEvent(hi) from before the run (none when
\* lo > hi) followed by the entries of tail.  list_len, list_at and list_seq
\* read it as the list it stands for.
list_old(h) == IF h.hi >= h.lo THEN h.hi - h.lo + 1 ELSE 0
list_len(h) == list_old(h) + Len(h.tail)
list_at(h, i) == IF i <= list_old(h) THEN PrefillEvent(h.lo + i - 1)
                 ELSE h.tail[i - list_old(h)]
list_seq(h) == [i \in 1..list_len(h) |-> list_at(h, i)]
EmptyList == [lo |-> 1, hi |-> 0, tail |-> <<>>]

\* h[k:] for 0 <= k <= len(h): the list without its first k entries.
list_drop(h, k) ==
    IF k <= list_old(h)
    THEN [h EXCEPT !.lo = @ + k]
    ELSE [lo |-> 1, hi |-> 0,
          tail |-> SubSeq(h.tail, k - list_old(h) + 1, Len(h.tail))]

\* record_history, statement by statement:
\* job_history.append(entry)
history_append(h, e) == [h EXCEPT !.tail = Append(@, e)]
\* len(job_history) > 200
history_over(h) == list_len(h) > HISTORY_CAP
\* del job_history[0]
history_evict(h) == list_drop(h, 1)

\* Mutant of history_view: job_history[:100], the oldest entries.
history_view_head(h) ==
    IF list_len(h) <= HISTORY_VIEW THEN h
    ELSE IF list_old(h) >= HISTORY_VIEW
         THEN [lo |-> h.lo, hi |-> h.lo + HISTORY_VIEW - 1, tail |-> <<>>]
         ELSE [h EXCEPT !.tail = SubSeq(@, 1, HISTORY_VIEW - list_old(h))]

\* job_history[-100:]
history_view(h) ==
    IF list_len(h) <= HISTORY_VIEW THEN h ELSE list_drop(h, list_len(h) - HISTORY_VIEW)

\* Mutant of queue_put: the new item goes to the head (a LIFO queue).
queue_put_front(q, item) == <<item>> \o q

\* Mutant of queue_rest: a stop signal stays at the head for the next worker.
queue_rest_keep_stop(q) == IF Head(q) = None THEN q ELSE Tail(q)

\* queue.Queue is FIFO: put appends at the tail, get takes the head.
queue_put(q, item) == Append(q, item)
queue_front(q) == Head(q)
queue_rest(q) == Tail(q)

\* A history entry.  seq and req are observation fields (append number and
\* originating request); the program stores job_id, filename, status and the
\* status-specific text.
Event(seq, j, status, info) ==
    [seq |-> seq, req |-> j.req, job_id |-> j.id, filename |-> j.filename,
     status |-> status, info |-> info]

Terminal == {"printed", "print_failed", "conversion_failed"}

\* Observation record of one request's job: converter and spooler invocations,
\* what the converter did (NoRun: not invoked), what the spooler did, removals
\* of the stored file attempted, whether an exception reached the worker's
\* `except Exception`, whether the worker is through with the job, whose bytes
\* the worker copied, what the worker saw when it attempted the removal
\* (scratch directory still there, terminal events appended so far), how many
\* stop signals had been put when the job was put (-1: not put), and the worker
\* that dequeued it (0: none yet).
NoAcct == [conv |-> 0, convRun |-> NoRun, print |-> 0, printRun |-> NoRun[1],
           removes |-> 0, fault |-> FALSE, done |-> FALSE, copied |-> 0,
           scratchAtRemove |-> FALSE, termAtRemove |-> 0, stopsAtPut |-> -1,
           by |-> 0]

\* ------------------------------------------------------------------ Init

InitWith(w, n, prefills, f) ==
    /\ job_queue = <<>>
    /\ adverse = f
    /\ \E p \in prefills :
         /\ job_history = [lo |-> 1, hi |-> p, tail |-> <<>>]
         /\ nextSeq = p + 1
    /\ uploads = [p \in Paths |-> 0]
    /\ clock = 0
    /\ nextReq = 1
    /\ up_pc = [r \in Reqs |-> "idle"]
    /\ up_job = [r \in Reqs |-> None]
    /\ resp = [r \in Reqs |-> 0]
    /\ rh = [t \in Threads |-> "idle"]
    /\ worker_count = w
    /\ upload_count = n
    /\ wk_pc = [x \in Workers |-> IF x <= w THEN "get" ELSE "absent"]
    /\ job = [x \in Workers |-> None]
    /\ tmpdir = [x \in Workers |-> NoDir]
    /\ sentinels = 0
    /\ serving = TRUE
    /\ exited = FALSE
    /\ reads = 0
    /\ lastRead = EmptyList
    /\ readAtSeq = 0
    /\ readBusy = FALSE
    /\ appendLog = <<>>
    /\ putOrder = <<>>
    /\ startOrder = <<>>
    /\ acct = [r \in Reqs |-> NoAcct]

\* A run starts with w workers, n requests to come, a ledger that is empty (the
\* server was just started) or holds HistoryPrefill entries of earlier jobs,
\* and an environment that is adverse or benign.
Init == InitWith(WORKER_COUNT, MaxUploads, {0, HistoryPrefill}, TRUE)
\* Mutant of InitFifo: the batch is fed to a pool of PoolSize workers.
InitFifo_pool == InitWith(PoolSize, MaxBatch, {HistoryPrefill}, TRUE)

InitFifo == InitWith(WORKER_COUNT, MaxBatch, {HistoryPrefill}, TRUE)
InitPool == InitWith(PoolSize, MaxUploads, {HistoryPrefill}, TRUE)

\* ------------------------------------------------------- record_history

\* job_history.append(entry): the first statement of record_history, run by
\* thread t; the caller's action supplies the entry.
RecordAppend(t, j, status, info) ==
    LET e == Event(nextSeq, j, status, info) IN
    /\ job_history' = history_append(job_history, e)
    /\ appendLog' = Append(appendLog, e)
    /\ nextSeq' = nextSeq + 1
    /\ rh' = [rh EXCEPT ![t] = "appended"]

\* if len(job_history) > 200:
RecordCheck(t) ==
    /\ ~exited
    /\ rh[t] = "appended"
    /\ rh' = [rh EXCEPT ![t] = IF history_over(job_history) THEN "evict" ELSE "idle"]
    /\ UNCHANGED <<job_queue, job_history, uploads, clock, nextReq, up_pc, up_job, resp,
                   wk_pc, job, tmpdir, worker_count, upload_count, adverse, sentinels, serving, exited,
                   reads, lastRead, nextSeq, readAtSeq, readBusy, appendLog, putOrder, startOrder,
                   acct>>

\*     del job_history[0]
RecordEvict(t) ==
    /\ ~exited
    /\ rh[t] = "evict"
    /\ job_history' = history_evict(job_history)
    /\ rh' = [rh EXCEPT ![t] = "idle"]
    /\ UNCHANGED <<job_queue, uploads, clock, nextReq, up_pc, up_job, resp,
                   wk_pc, job, tmpdir, worker_count, upload_count, adverse, sentinels, serving, exited,
                   reads, lastRead, nextSeq, readAtSeq, readBusy, appendLog, putOrder, startOrder,
                   acct>>

\* ---------------------------------------------------------------- upload

\* upload(), up to and including f.save: validation, timestamp, unique name.
UploadBegin(r) ==
    /\ ~exited /\ serving
    /\ r = nextReq
    /\ r <= upload_count
    /\ up_pc[r] = "idle"
    /\ nextReq' = nextReq + 1
    /\ \E name \in UploadNames :
         IF ~allowed_file(name)
         THEN /\ up_pc' = [up_pc EXCEPT ![r] = "done"]
              /\ resp' = [resp EXCEPT ![r] = 400]
              /\ UNCHANGED <<clock, uploads, up_job>>
         ELSE \E ts \in ClockOutcomes, saved \in SaveOutcomes :
                /\ clock' = ts
                /\ IF saved
                   THEN /\ uploads' = [uploads EXCEPT ![<<ts, name>>] = r]
                        /\ up_job' = [up_job EXCEPT ![r] =
                               [id |-> ts, filename |-> name,
                                filepath |-> <<ts, name>>, req |-> r]]
                        /\ up_pc' = [up_pc EXCEPT ![r] = "put"]
                        /\ UNCHANGED resp
                   ELSE /\ up_pc' = [up_pc EXCEPT ![r] = "done"]
                        /\ resp' = [resp EXCEPT ![r] = 500]
                        /\ UNCHANGED <<uploads, up_job>>
    /\ UNCHANGED <<job_queue, job_history, rh, wk_pc, job, tmpdir, worker_count, upload_count, adverse,
                   sentinels, serving, exited, reads, lastRead, nextSeq, readAtSeq, readBusy,
                   appendLog, putOrder, startOrder, acct>>

\* job_queue.put(job)
UploadPut(r) ==
    /\ ~exited
    /\ up_pc[r] = "put"
    /\ job_queue' = queue_put(job_queue, up_job[r])
    /\ putOrder' = Append(putOrder, r)
    /\ acct' = [acct EXCEPT ![r].stopsAtPut = sentinels]
    /\ up_pc' = [up_pc EXCEPT ![r] = "record"]
    /\ UNCHANGED <<job_history, uploads, clock, nextReq, up_job, resp, rh, wk_pc, job,
                   tmpdir, worker_count, upload_count, adverse, sentinels, serving, exited, reads,
                   lastRead, nextSeq, readAtSeq, readBusy, appendLog, startOrder>>

\* record_history({... "status": "queued" ...}), its append; the handler then
\* finishes record_history (RecordCheck, RecordEvict) and returns 200.
UploadRecord(r) ==
    /\ ~exited
    /\ up_pc[r] = "record"
    /\ RecordAppend(<<"upload", r>>, up_job[r], "queued", <<"", "">>)
    /\ up_pc' = [up_pc EXCEPT ![r] = "done"]
    /\ resp' = [resp EXCEPT ![r] = 200]
    /\ UNCHANGED <<job_queue, uploads, clock, nextReq, up_job, wk_pc, job,
                   tmpdir, worker_count, upload_count, adverse, sentinels, serving, exited, reads,
                   lastRead, readAtSeq, readBusy, putOrder, startOrder, acct>>

\* --------------------------------------------------------------- history

\* GET /history: job_history[-100:]
HistoryRead ==
    /\ ~exited /\ serving
    /\ reads < MaxReads
    /\ reads' = reads + 1
    /\ lastRead' = history_view(job_history)
    /\ readAtSeq' = nextSeq - 1
    /\ readBusy' = (\E t \in Threads : rh[t] # "idle")
    /\ UNCHANGED <<job_queue, job_history, uploads, clock, nextReq, up_pc, up_job, resp,
                   rh, wk_pc, job, tmpdir, worker_count, upload_count, adverse, sentinels, serving,
                   exited, nextSeq, appendLog, putOrder, startOrder, acct>>

\* ---------------------------------------------------------------- worker

\* Terminal events appended so far for the job of request r.
TermCount(r) ==
    Cardinality({i \in DOMAIN appendLog :
                    appendLog[i].req = r /\ appendLog[i].status \in Terminal})

\* job = job_queue.get(); if job is None: break
WorkerGet(w) ==
    /\ ~exited
    /\ wk_pc[w] = "get"
    /\ job_queue # <<>>
    /\ job_queue' = queue_rest(job_queue)
    /\ IF queue_front(job_queue) = None
       THEN /\ wk_pc' = [wk_pc EXCEPT ![w] = "stopped"]
            /\ UNCHANGED <<job, startOrder, acct>>
       ELSE /\ wk_pc' = [wk_pc EXCEPT ![w] = "processing"]
            /\ job' = [job EXCEPT ![w] = queue_front(job_queue)]
            /\ startOrder' = Append(startOrder, queue_front(job_queue).req)
            /\ acct' = [acct EXCEPT ![queue_front(job_queue).req].by = w]
    /\ UNCHANGED <<job_history, uploads, clock, nextReq, up_pc, up_job, resp, rh,
                   tmpdir, worker_count, upload_count, adverse, sentinels, serving, exited, reads,
                   lastRead, nextSeq, readAtSeq, readBusy, appendLog, putOrder>>

\* record_history({... "status": "processing" ...}), its append
WorkerProcessing(w) ==
    /\ ~exited
    /\ wk_pc[w] = "processing"
    /\ RecordAppend(<<"worker", w>>, job[w], "processing", <<"", "">>)
    /\ wk_pc' = [wk_pc EXCEPT ![w] = "copy"]
    /\ UNCHANGED <<job_queue, uploads, clock, nextReq, up_pc, up_job, resp, job,
                   tmpdir, worker_count, upload_count, adverse, sentinels, serving, exited, reads,
                   lastRead, readAtSeq, readBusy, putOrder, startOrder, acct>>

\* What the filesystem does to the scratch set-up.
CopyOutcomes == IF adverse THEN {"ok", "mkdtemp raises", "copy raises"} ELSE {"ok"}

\* with tempfile.TemporaryDirectory(dir=WORK_FOLDER) as tmpdir:
\*     shutil.copy(job['filepath'], tmp_input); ext = ...; if ext == "pdf": ...
\* Creating the directory may raise; the copy raises when the stored file is
\* gone or on an I/O error.  Either exception goes to `except Exception`, the
\* second one through the exit of the `with` block.
WorkerCopy(w) ==
    /\ ~exited
    /\ wk_pc[w] = "copy"
    /\ rh[<<"worker", w>>] = "idle"
    /\ \E fs \in CopyOutcomes :
         IF fs = "mkdtemp raises"
         THEN /\ acct' = [acct EXCEPT ![job[w].req].fault = TRUE]
              /\ wk_pc' = [wk_pc EXCEPT ![w] = "remove"]
              /\ UNCHANGED tmpdir
         ELSE IF fs = "copy raises" \/ uploads[job[w].filepath] = 0
         THEN /\ acct' = [acct EXCEPT ![job[w].req].fault = TRUE]
              /\ tmpdir' = [tmpdir EXCEPT ![w] = {}]
              /\ wk_pc' = [wk_pc EXCEPT ![w] = "with_exit"]
         ELSE /\ acct' = [acct EXCEPT ![job[w].req].copied = uploads[job[w].filepath]]
              /\ tmpdir' = [tmpdir EXCEPT ![w] = {"input"}]
              /\ wk_pc' = [wk_pc EXCEPT ![w] =
                     IF NeedsConversion(job[w].filename) THEN "convert" ELSE "print"]
    /\ UNCHANGED <<job_queue, job_history, uploads, clock, nextReq, up_pc, up_job, resp,
                   rh, job, worker_count, upload_count, adverse, sentinels, serving, exited, reads,
                   lastRead, nextSeq, readAtSeq, readBusy, appendLog, putOrder, startOrder>>

\* Mutant of WorkerConvert: the upload is removed at the end of the try body
\* instead of in `finally`, so `continue` goes back to the queue without it.
WorkerConvert_no_finally(w) ==
    /\ ~exited
    /\ wk_pc[w] = "convert"
    /\ \E run \in ConverterOutcomes :
         LET dir == IF run[2] THEN tmpdir[w] \cup {"pdf"} ELSE tmpdir[w]
             c == convert_to_pdf(run[1], dir)
         IN /\ acct' = [acct EXCEPT ![job[w].req].conv = @ + 1,
                                    ![job[w].req].convRun = run,
                                    ![job[w].req].done = c.raised]
            /\ IF c.raised
               THEN /\ RecordAppend(<<"worker", w>>, job[w], "conversion_failed", c.text)
                    /\ tmpdir' = [tmpdir EXCEPT ![w] = NoDir]
                    /\ job' = [job EXCEPT ![w] = None]
                    /\ wk_pc' = [wk_pc EXCEPT ![w] = "get"]
               ELSE /\ wk_pc' = [wk_pc EXCEPT ![w] = "print"]
                    /\ tmpdir' = [tmpdir EXCEPT ![w] = dir]
                    /\ UNCHANGED <<job_history, appendLog, nextSeq, rh, job>>
    /\ UNCHANGED <<job_queue, uploads, clock, nextReq, up_pc, up_job, resp,
                   worker_count, upload_count, adverse, sentinels, serving, exited, reads,
                   lastRead, readAtSeq, readBusy, putOrder, startOrder>>

\* try: pdf_path = convert_to_pdf(tmp_input, tmpdir)
\* except Exception as e: record_history({... "conversion_failed" ...}); continue
WorkerConvert(w) ==
    /\ ~exited
    /\ wk_pc[w] = "convert"
    /\ \E run \in ConverterOutcomes :
         LET dir == IF run[2] THEN tmpdir[w] \cup {"pdf"} ELSE tmpdir[w]
             c == convert_to_pdf(run[1], dir)
         IN /\ tmpdir' = [tmpdir EXCEPT ![w] = dir]
            /\ acct' = [acct EXCEPT ![job[w].req].conv = @ + 1,
                                    ![job[w].req].convRun = run]
            /\ IF c.raised
               THEN /\ RecordAppend(<<"worker", w>>, job[w], "conversion_failed", c.text)
                    /\ wk_pc' = [wk_pc EXCEPT ![w] = "with_exit"]
               ELSE /\ wk_pc' = [wk_pc EXCEPT ![w] = "print"]
                    /\ UNCHANGED <<job_history, appendLog, nextSeq, rh>>
    /\ UNCHANGED <<job_queue, uploads, clock, nextReq, up_pc, up_job, resp, job,
                   worker_count, upload_count, adverse, sentinels, serving, exited, reads, lastRead,
                   readAtSeq, readBusy, putOrder, startOrder>>

\* Mutant of WorkerPrint: a job whose print failed is put back on the queue.
WorkerPrint_requeue(w) ==
    /\ ~exited
    /\ wk_pc[w] = "print"
    /\ \E res \in SpoolerOutcomes :
         /\ RecordAppend(<<"worker", w>>, job[w],
                         IF print_pdf(res).ok THEN "printed" ELSE "print_failed",
                         print_pdf(res).msg)
         /\ acct' = [acct EXCEPT ![job[w].req].print = @ + 1,
                                 ![job[w].req].printRun = res]
         /\ job_queue' = IF print_pdf(res).ok THEN job_queue
                         ELSE queue_put(job_queue, job[w])
    /\ wk_pc' = [wk_pc EXCEPT ![w] = "with_exit"]
    /\ UNCHANGED <<uploads, clock, nextReq, up_pc, up_job, resp, job,
                   tmpdir, worker_count, upload_count, adverse, sentinels, serving, exited, reads,
                   lastRead, readAtSeq, readBusy, putOrder, startOrder>>

\* ok, msg = print_pdf(pdf_path)
\* if ok: record_history(printed) else: record_history(print_failed)
WorkerPrint(w) ==
    /\ ~exited
    /\ wk_pc[w] = "print"
    /\ \E res \in SpoolerOutcomes :
         /\ RecordAppend(<<"worker", w>>, job[w],
                         IF print_pdf(res).ok THEN "printed" ELSE "print_failed",
                         print_pdf(res).msg)
         /\ acct' = [acct EXCEPT ![job[w].req].print = @ + 1,
                                 ![job[w].req].printRun = res]
    /\ wk_pc' = [wk_pc EXCEPT ![w] = "with_exit"]
    /\ UNCHANGED <<job_queue, uploads, clock, nextReq, up_pc, up_job, resp, job,
                   tmpdir, worker_count, upload_count, adverse, sentinels, serving, exited, reads,
                   lastRead, readAtSeq, readBusy, putOrder, startOrder>>

\* Leaving the `with` block (at its end, by `continue`, or by an exception):
\* the scratch directory is destroyed.
WorkerWithExit(w) ==
    /\ ~exited
    /\ wk_pc[w] = "with_exit"
    /\ rh[<<"worker", w>>] = "idle"
    /\ tmpdir' = [tmpdir EXCEPT ![w] = NoDir]
    /\ wk_pc' = [wk_pc EXCEPT ![w] = "remove"]
    /\ UNCHANGED <<job_queue, job_history, uploads, clock, nextReq, up_pc, up_job, resp,
                   rh, job, worker_count, upload_count, adverse, sentinels, serving, exited, reads,
                   lastRead, nextSeq, readAtSeq, readBusy, appendLog, putOrder, startOrder, acct>>

\* Mutant of WorkerRemove: after a job that raised, the exception goes on out of
\* the loop once `finally` has run, and the thread ends.
WorkerRemove_then_raise(w) ==
    /\ ~exited
    /\ wk_pc[w] = "remove"
    /\ uploads' = [uploads EXCEPT ![job[w].filepath] = 0]
    /\ acct' = [acct EXCEPT ![job[w].req].removes = @ + 1,
                            ![job[w].req].scratchAtRemove = (tmpdir[w] # NoDir),
                            ![job[w].req].termAtRemove = TermCount(job[w].req),
                            ![job[w].req].done = TRUE]
    /\ job' = [job EXCEPT ![w] = None]
    /\ wk_pc' = [wk_pc EXCEPT ![w] = IF acct[job[w].req].fault THEN "stopped" ELSE "get"]
    /\ UNCHANGED <<job_queue, job_history, clock, nextReq, up_pc, up_job, resp,
                   rh, tmpdir, worker_count, upload_count, adverse, sentinels, serving, exited,
                   reads, lastRead, nextSeq, readAtSeq, readBusy, appendLog, putOrder, startOrder>>

\* finally: try: os.remove(job['filepath']) except Exception: pass
\*          job_queue.task_done()
\* and back to the top of `while True`.
WorkerRemove(w) ==
    /\ ~exited
    /\ wk_pc[w] = "remove"
    /\ uploads' = [uploads EXCEPT ![job[w].filepath] = 0]
    /\ acct' = [acct EXCEPT ![job[w].req].removes = @ + 1,
                            ![job[w].req].scratchAtRemove = (tmpdir[w] # NoDir),
                            ![job[w].req].termAtRemove = TermCount(job[w].req),
                            ![job[w].req].done = TRUE]
    /\ job' = [job EXCEPT ![w] = None]
    /\ wk_pc' = [wk_pc EXCEPT ![w] = "get"]
    /\ UNCHANGED <<job_queue, job_history, clock, nextReq, up_pc, up_job, resp,
                   rh, tmpdir, worker_count, upload_count, adverse, sentinels, serving, exited,
                   reads, lastRead, nextSeq, readAtSeq, readBusy, appendLog, putOrder, startOrder>>

\* -------------------------------------------------------------- shutdown

\* Mutant of ShutdownPut: one stop signal is put for the whole pool.
ShutdownPut_single ==
    /\ ~exited
    /\ sentinels < worker_count
    /\ serving' = FALSE
    /\ job_queue' = queue_put(job_queue, None)
    /\ sentinels' = worker_count
    /\ UNCHANGED <<job_history, uploads, clock, nextReq, up_pc, up_job, resp, rh, wk_pc,
                   job, tmpdir, worker_count, upload_count, adverse, exited, reads, lastRead,
                   nextSeq, readAtSeq, readBusy, appendLog, putOrder, startOrder, acct>>

\* app.run returned; shutdown_workers: job_queue.put(None), once per worker
ShutdownPut ==
    /\ ~exited
    /\ sentinels < worker_count
    /\ serving' = FALSE
    /\ job_queue' = queue_put(job_queue, None)
    /\ sentinels' = sentinels + 1
    /\ UNCHANGED <<job_history, uploads, clock, nextReq, up_pc, up_job, resp, rh, wk_pc,
                   job, tmpdir, worker_count, upload_count, adverse, exited, reads, lastRead, nextSeq,
                   readAtSeq, readBusy, appendLog, putOrder, startOrder, acct>>

\* "Server exiting.": the main thread ends and with it every daemon thread.
ServerExit ==
    /\ ~exited
    /\ sentinels = worker_count
    /\ exited' = TRUE
    /\ UNCHANGED <<job_queue, job_history, uploads, clock, nextReq, up_pc, up_job, resp,
                   rh, wk_pc, job, tmpdir, worker_count, upload_count, adverse, sentinels, serving,
                   reads, lastRead, nextSeq, readAtSeq, readBusy, appendLog, putOrder, startOrder,
                   acct>>

\* ------------------------------------------------------------------ Next

\* Uploads and workers.
NextJobs ==
    \/ \E r \in Reqs : UploadBegin(r)
    \/ \E r \in Reqs : UploadPut(r)
    \/ \E r \in Reqs : UploadRecord(r)
    \/ \E t \in Threads : RecordCheck(t)
    \/ \E t \in Threads : RecordEvict(t)
    \/ \E w \in Workers : WorkerGet(w)
    \/ \E w \in Workers : WorkerProcessing(w)
    \/ \E w \in Workers : WorkerCopy(w)
    \/ \E w \in Workers : WorkerConvert(w)
    \/ \E w \in Workers : WorkerPrint(w)
    \/ \E w \in Workers : WorkerWithExit(w)
    \/ \E w \in Workers : WorkerRemove(w)

\* The whole server: uploads, workers, history reads and shutdown.
Next ==
    \/ NextJobs
    \/ HistoryRead
    \/ ShutdownPut
    \/ ServerExit

\* The shipped configuration (WORKER_COUNT = 1), MaxUploads requests.
Spec == Init /\ [][Next]_vars

\* The shipped configuration fed MaxBatch requests, while it serves.
SpecFifo == InitFifo /\ [][NextJobs]_vars

\* The same program started with PoolSize workers, MaxUploads requests.
SpecPool == InitPool /\ [][Next]_vars

\* The shipped configuration or a pool of PoolSize workers, MaxUploads requests.
InitEither == Init \/ InitPool
SpecEither == InitEither /\ [][Next]_vars

\* A pool of PoolSize workers fed MaxBatch requests in a benign environment.
InitOrder == InitWith(PoolSize, MaxBatch, {HistoryPrefill}, FALSE)
SpecOrder == InitOrder /\ [][NextJobs]_vars

\* ================================================================ claims

Min(a, b) == IF a <= b THEN a ELSE b
IsPrefix(a, b) == Len(a) <= Len(b) /\ \A i \in DOMAIN a : a[i] = b[i]
IsProcessing(e) == e.status = "processing"
Holds(w, r) == job[w] # None /\ job[w].req = r
InFlight(r) == \E w \in Workers : Holds(w, r)
Started(r) == \E i \in DOMAIN startOrder : startOrder[i] = r
EventsOf(r) == {i \in DOMAIN appendLog : appendLog[i].req = r}
ConvFailedRun(run) ==
    run # NoRun /\ (run[1].kind # "exit" \/ run[1].code # 0 \/ ~run[2])

\* C1: with one worker, jobs are dequeued, get their `processing` event and are
\* run in the order of job_queue.put, and a job put earlier is through its
\* cleanup before a job put later is started.
C1_FifoOrder ==
    /\ IsPrefix(startOrder, putOrder)
    /\ \A i \in DOMAIN appendLog :
         appendLog[i].status = "processing" =>
           LET k == Len(SelectSeq(SubSeq(appendLog, 1, i), IsProcessing))
           IN k <= Len(putOrder) /\ putOrder[k] = appendLog[i].req
    /\ \A i, j \in DOMAIN putOrder :
         (i < j /\ Started(putOrder[j])) => acct[putOrder[i]].done

\* Two producers put in the opposite order of their arrival, and both jobs ran.
C1_Witness ==
    /\ putOrder = <<2, 1>>
    /\ startOrder = <<2, 1>>
    /\ acct[1].done /\ acct[2].done

\* C2: once the worker is through with a job, exactly one terminal event
\* (printed, print_failed, conversion_failed) has been appended for it.
C2_ExactlyOneTerminal ==
    \A r \in Reqs : acct[r].done => TermCount(r) = 1

\* C3: a job whose pipeline ended in an unexpected fault (scratch set-up or copy
\* raised) has a *_failed event in the ledger's append history.
C3_FaultAccounted ==
    \A r \in Reqs :
      (acct[r].done /\ acct[r].fault) =>
        \E i \in EventsOf(r) :
          appendLog[i].status \in {"print_failed", "conversion_failed"}

\* C4: the removal of a dequeued job's stored file is attempted exactly once, on
\* every path, not while the job is in flight, and when it is attempted the
\* scratch directory is gone and every terminal event of the job is appended.
C4_RemoveOnceAfterPipeline ==
    \A r \in Reqs :
      /\ acct[r].removes <= 1
      /\ InFlight(r) => acct[r].removes = 0
      /\ (Started(r) /\ ~InFlight(r)) => acct[r].removes = 1
      /\ acct[r].removes = 1 =>
           /\ ~acct[r].scratchAtRemove
           /\ acct[r].termAtRemove = TermCount(r)
      /\ \A w \in Workers :
           (Holds(w, r) /\ wk_pc[w] = "remove") =>
             (tmpdir[w] = NoDir /\ rh[<<"worker", w>>] = "idle")

\* A job that failed in conversion (the `continue` path) had its file removed.
C4_Witness ==
    \E r \in Reqs :
      /\ acct[r].done /\ acct[r].removes = 1
      /\ ConvFailedRun(acct[r].convRun)
      /\ uploads[up_job[r].filepath] = 0

\* C5: every `processing` or terminal event of a job is appended after the
\* `queued` event of that job.
C5_QueuedFirst ==
    \A i \in DOMAIN appendLog :
      appendLog[i].status # "queued" =>
        \E k \in 1..(i - 1) :
          appendLog[k].req = appendLog[i].req /\ appendLog[k].status = "queued"

\* C6: the ledger never holds more than 200 events, in any state.
C6_LedgerBounded == list_len(job_history) <= HISTORY_CAP

\* C7: whenever no record_history call is in progress, the ledger holds exactly
\* the min(200, n) most recently appended of the n events appended, in order.
C7_NoLostUpdates ==
    (\A t \in Threads : rh[t] = "idle") =>
      LET n == nextSeq - 1
          k == Min(HISTORY_CAP, n)
      IN /\ list_len(job_history) = k
         /\ \A i \in 1..k : list_at(job_history, i).seq = n - k + i

\* C8: a history read returns at most 100 events, consecutive in append order,
\* ending at the event appended last before the read.
C8_ReadIsRecentRun ==
    reads > 0 =>
      LET n == list_len(lastRead) IN
      /\ n <= HISTORY_VIEW
      /\ n = 0 <=> readAtSeq = 0
      /\ n > 0 => list_at(lastRead, n).seq = readAtSeq
      /\ \A i \in 1..(n - 1) : list_at(lastRead, i + 1).seq = list_at(lastRead, i).seq + 1

\* A read taken while a thread was between the statements of record_history,
\* returning 100 events that include events appended during the run.
C8_Witness ==
    /\ reads > 0 /\ readBusy
    /\ list_len(lastRead) = HISTORY_VIEW
    /\ Len(lastRead.tail) >= 2

\* C9: a PDF job never reaches the converter; its copy goes to print dispatch and
\* its terminal event is printed or print_failed, never conversion_failed.
C9_PdfSkipsConverter ==
    /\ \A r \in Reqs :
         up_job[r].filename[2] = "pdf" =>
           /\ acct[r].conv = 0 /\ acct[r].convRun = NoRun
           /\ \A w \in Workers : Holds(w, r) => wk_pc[w] # "convert"
           /\ (acct[r].done /\ ~acct[r].fault) =>
                /\ acct[r].print = 1
                /\ \E i \in EventsOf(r) : appendLog[i].status \in {"printed", "print_failed"}
    /\ \A i \in DOMAIN appendLog :
         appendLog[i].filename[2] = "pdf" => appendLog[i].status # "conversion_failed"

\* A PDF job went through print dispatch and is done.
C9_Witness ==
    \E r \in Reqs :
      /\ up_job[r].filename[2] = "pdf"
      /\ acct[r].done /\ acct[r].print = 1 /\ acct[r].conv = 0
      /\ \E i \in EventsOf(r) : appendLog[i].status = "print_failed"

\* C10: when the converter exits non-zero, times out, or exits zero without the
\* expected PDF, the job's one terminal event is conversion_failed and the
\* spooler is never invoked for it.
C10_ConversionFailureIsTerminal ==
    \A r \in Reqs :
      ConvFailedRun(acct[r].convRun) =>
        /\ acct[r].print = 0
        /\ TermCount(r) = 1
        /\ \A i \in EventsOf(r) :
             appendLog[i].status \in Terminal => appendLog[i].status = "conversion_failed"
        /\ \A w \in Workers : Holds(w, r) => wk_pc[w] \in {"with_exit", "remove"}

\* A converter that exited zero without writing the PDF, the job being done.
C10_Witness ==
    \E r \in Reqs :
      /\ acct[r].convRun = <<ProcExit0, FALSE>>
      /\ acct[r].done /\ acct[r].print = 0
      /\ \E i \in EventsOf(r) : appendLog[i].status = "conversion_failed"

\* Another request saved its upload under the stored path of request r.
SharesPath(r) ==
    \E r2 \in Reqs \ {r} : up_job[r2] # None /\ up_job[r2].filepath = up_job[r].filepath

\* C11: when the spooler call times out, the job's one terminal event is
\* print_failed and its text is run_subprocess's "Timeout expired"; the worker
\* goes from there to the exit of the `with` block and the removal only, and is
\* back at the queue with the scratch directory destroyed and the stored file
\* removed (the path is empty, unless another upload was saved under it).
C11_PrintTimeoutFailsAndCleans ==
    \A r \in Reqs :
      acct[r].printRun = ProcTimeout =>
        /\ TermCount(r) = 1
        /\ \A i \in EventsOf(r) :
             appendLog[i].status \in Terminal =>
               /\ appendLog[i].status = "print_failed"
               /\ appendLog[i].info[2] = "Timeout expired"
        /\ \A w \in Workers : Holds(w, r) => wk_pc[w] \in {"with_exit", "remove"}
        /\ ~InFlight(r) =>
             /\ acct[r].removes = 1 /\ ~acct[r].scratchAtRemove
             /\ uploads[up_job[r].filepath] # r
             /\ ~SharesPath(r) => uploads[up_job[r].filepath] = 0
             /\ \A w \in Workers : wk_pc[w] = "get" => tmpdir[w] = NoDir

\* The spooler timed out on a job, the worker cleaned up and took the next
\* item from the queue (the stop signal).
C11_Witness ==
    \E r \in Reqs :
      /\ acct[r].printRun = ProcTimeout
      /\ acct[r].done
      /\ \E w \in Workers : wk_pc[w] = "stopped"

\* C12: when the server has exited after putting the stop signals, every job
\* that a worker dequeued or that was put ahead of the last stop signal is fully
\* processed: its `queued` event is recorded, the worker is through with it and
\* its stored file was removed.
C12_DrainedAtExit ==
    exited =>
      \A r \in Reqs :
        (Started(r) \/ (acct[r].stopsAtPut >= 0 /\ acct[r].stopsAtPut < worker_count)) =>
          /\ up_pc[r] = "done"
          /\ acct[r].done /\ acct[r].removes = 1

IsStop(item) == item = None
StopsQueued == Len(SelectSeq(job_queue, IsStop))
StoppedWorkers == {w \in Workers : wk_pc[w] = "stopped"}

\* C13: every stop signal put is either still in the queue or was consumed by
\* exactly one worker, which then left its loop for good, so no worker consumes
\* two and W signals stop W workers; the step that consumes a stop signal takes
\* it off the head of the queue and touches nothing else: no history event, no
\* file, no scratch directory, no converter or spooler call, no job.
C13_StopSignalOncePerWorker ==
    /\ [](StopsQueued + Cardinality(StoppedWorkers) = sentinels)
    /\ [][\A w \in Workers :
            /\ wk_pc[w] = "stopped" => wk_pc'[w] = "stopped"
            /\ (wk_pc[w] # "stopped" /\ wk_pc'[w] = "stopped") =>
                 /\ wk_pc[w] = "get"
                 /\ job_queue # <<>> /\ Head(job_queue) = None
                 /\ job_queue' = Tail(job_queue)
                 /\ \A x \in Workers \ {w} : wk_pc'[x] = wk_pc[x]
                 /\ job'[w] = None
                 /\ UNCHANGED <<job_history, appendLog, uploads, tmpdir, job,
                                startOrder, acct>>]_vars

\* Two workers, two stop signals, both consumed, after a job was processed.
C13_Witness ==
    /\ worker_count = PoolSize /\ sentinels = worker_count
    /\ StopsQueued = 0
    /\ \A w \in Workers : wk_pc[w] = "stopped"
    /\ \E r \in Reqs : acct[r].done

\* The job of request r ended in a failure: a *_failed event, or an exception
\* caught at the worker's `except Exception`.
Failed(r) ==
    \/ acct[r].fault
    \/ \E i \in EventsOf(r) : appendLog[i].status \in {"print_failed", "conversion_failed"}
ProcessingCount(r) ==
    Cardinality({i \in EventsOf(r) : appendLog[i].status = "processing"})
StartedBefore(r1, r2) ==
    \E i, j \in DOMAIN startOrder : i < j /\ startOrder[i] = r1 /\ startOrder[j] = r2

\* C14: a job that failed leaves the worker in its loop (a worker stops on a
\* stop signal only), and a job dequeued after a failed one is processed on its
\* own terms: it is started once the failed job is cleaned up, gets exactly one
\* `processing` event, and unless it is itself cut short by an exception it ends
\* with exactly one terminal event, the one its own converter and spooler runs
\* call for, and with its file removed.
C14_FailureIsolated ==
    /\ \A w \in Workers :
         wk_pc[w] = "stopped" => Cardinality(StoppedWorkers) + StopsQueued = sentinels
    /\ \A r1, r2 \in Reqs :
         (Failed(r1) /\ StartedBefore(r1, r2)) =>
           /\ acct[r1].done /\ acct[r1].removes = 1
           /\ ProcessingCount(r2) <= 1
           /\ acct[r2].done =>
                /\ ProcessingCount(r2) = 1
                /\ acct[r2].removes = 1
                /\ ~acct[r2].fault =>
                     /\ TermCount(r2) = 1
                     /\ \A i \in EventsOf(r2) :
                          appendLog[i].status \in Terminal =>
                            appendLog[i].status =
                              IF ConvFailedRun(acct[r2].convRun) THEN "conversion_failed"
                              ELSE IF acct[r2].printRun = ProcExit0 THEN "printed"
                              ELSE "print_failed"

\* A job cut short by an exception, then a job that was printed, the worker
\* back at the queue.
C14_Witness ==
    \E r1, r2 \in Reqs :
      /\ StartedBefore(r1, r2)
      /\ acct[r1].fault /\ acct[r1].done
      /\ acct[r2].done /\ acct[r2].printRun = ProcExit0
      /\ \E i \in EventsOf(r2) : appendLog[i].status = "printed"
      /\ \A w \in Workers : w <= worker_count => wk_pc[w] = "get"

\* The job of request r was put on the queue.
WasPut(r) == acct[r].stopsAtPut >= 0

\* C15: no two jobs put on the queue have the same id, so the jobs queued or in
\* flight have pairwise distinct ids and all events appended under one job_id
\* belong to one request.
C15_JobIdsUnique ==
    /\ \A r1, r2 \in Reqs :
         (r1 # r2 /\ WasPut(r1) /\ WasPut(r2)) => up_job[r1].id # up_job[r2].id
    /\ \A i, j \in DOMAIN appendLog :
         appendLog[i].job_id = appendLog[j].job_id => appendLog[i].req = appendLog[j].req

\* C16: from its put until its own cleanup the stored file of a job holds that
\* job's upload (no other queued or in-flight job has the same stored path, no
\* later upload has overwritten the file, no other job's cleanup has removed
\* it), and the bytes a worker copies for a job are that job's own.
C16_StoredFileOwned ==
    \A r \in Reqs :
      /\ (WasPut(r) /\ ~acct[r].done) => uploads[up_job[r].filepath] = r
      /\ acct[r].copied \in {0, r}

StartCount(r) == Cardinality({i \in DOMAIN startOrder : startOrder[i] = r})
QueuedCount(r) == Cardinality({i \in DOMAIN job_queue : job_queue[i].req = r})

\* C17: with one worker or several, a job that was put is in the queue once or
\* was dequeued once, never both and never again; at most one worker holds it;
\* it gets at most one `processing` event (exactly one once the worker is through
\* with it), at most one converter call and at most one spooler call; and a job
\* with a terminal event is not in the queue.
C17_ProcessedAtMostOnce ==
    \A r \in Reqs :
      /\ QueuedCount(r) + StartCount(r) = (IF WasPut(r) THEN 1 ELSE 0)
      /\ Cardinality({w \in Workers : Holds(w, r)}) <= StartCount(r)
      /\ ProcessingCount(r) <= StartCount(r)
      /\ acct[r].done => ProcessingCount(r) = 1
      /\ acct[r].conv <= 1 /\ acct[r].print <= 1
      /\ TermCount(r) > 0 => QueuedCount(r) = 0

\* In a pool of two workers a job failed in print, the worker is through with
\* it, and both workers have since taken their stop signals.
C17_Witness ==
    \E r \in Reqs :
      /\ worker_count = PoolSize
      /\ acct[r].done /\ acct[r].print = 1
      /\ \E i \in EventsOf(r) : appendLog[i].status = "print_failed"
      /\ StartCount(r) = 1 /\ QueuedCount(r) = 0
      /\ \A w \in Workers : wk_pc[w] = "stopped"

PutBefore(r1, r2) ==
    \E i, j \in DOMAIN putOrder : i < j /\ putOrder[i] = r1 /\ putOrder[j] = r2
\* Events a worker appended for the job of request r.
WorkerEventsOf(r) == {i \in EventsOf(r) : appendLog[i].status # "queued"}

C19_OneJobAtATime ==
    /\ Cardinality({w \in Workers : job[w] # None}) <= 1
    /\ Cardinality({w \in Workers : wk_pc[w] \in {"convert", "print"}}) <= 1
    /\ \A r1, r2 \in Reqs :
         StartedBefore(r1, r2) =>
           /\ acct[r1].done /\ acct[r1].removes = 1
           /\ ~acct[r1].scratchAtRemove
           /\ acct[r1].termAtRemove = TermCount(r1)
           /\ \A i \in WorkerEventsOf(r1), j \in WorkerEventsOf(r2) : i < j

\* The second job has its `processing` event while its upload handler is still
\* inside record_history; the first job ended with a terminal event.
C19_Witness ==
    \E r1, r2 \in Reqs :
      /\ StartedBefore(r1, r2)
      /\ TermCount(r1) = 1
      /\ ProcessingCount(r2) = 1
      /\ rh[<<"upload", r2>>] # "idle"

\* C20: a job put when all W stop signals were already in the queue is never
\* dequeued: it stays in the queue, no worker appends an event for it, its
\* cleanup never runs and its stored file stays (unless another upload was
\* saved under the same path); a job put before the last stop signal is, while
\* it waits,
\* ahead of a signal for every worker but those stopped by the signals put
\* before it, so a worker that has not received its signal is left to take it.
C20_LateJobStranded ==
    \A r \in Reqs :
      /\ (WasPut(r) /\ acct[r].stopsAtPut = worker_count) =>
           /\ QueuedCount(r) = 1 /\ StartCount(r) = 0 /\ acct[r].by = 0
           /\ WorkerEventsOf(r) = {}
           /\ acct[r].removes = 0
           /\ ~SharesPath(r) => uploads[up_job[r].filepath] = r
      /\ (WasPut(r) /\ acct[r].stopsAtPut < worker_count /\ QueuedCount(r) = 1) =>
           Cardinality(StoppedWorkers) <= acct[r].stopsAtPut
      /\ (acct[r].by # 0 /\ ~acct[r].done) => wk_pc[acct[r].by] # "stopped"

\* A handler put its job after both stop signals and recorded `queued`; both
\* workers have stopped and the job is still in the queue.
C20_Witness ==
    \E r \in Reqs :
      /\ worker_count = PoolSize /\ acct[r].stopsAtPut = PoolSize
      /\ up_pc[r] = "done"
      /\ \E i \in EventsOf(r) : appendLog[i].status = "queued"
      /\ \A w \in Workers : wk_pc[w] = "stopped"
      /\ QueuedCount(r) = 1

====
